---- MODULE Spec2Model ----
(***************************************************************************)
(* Model of source_code/bayesian.py: the model-selection grid              *)
(* (find_best_model), the column reconciliation and inference call         *)
(* (predict_value) and the shifted misclassification rate                  *)
(* (calculate_error).  Each function has its own specification:            *)
(* SpecSelect, SpecPredict and SpecError.                                  *)
(***************************************************************************)
EXTENDS Integers, Sequences, FiniteSets

VARIABLES
    \* find_best_model
    max_iters,        \* the list of iteration budgets (argument)
    scoring_methods,  \* the method names, in dict insertion order (argument)
    pc,               \* position inside find_best_model
    pos,              \* <<budget index, method index>> of the current cell
    model,            \* local `model` of the current cell
    score,            \* local `score` of the current cell
    best_model, best_score, best_method, best_iter,
    searched,         \* cells for which hc.estimate was called, in order
    evaluated,        \* cells for which scoring_method.score returned
    raisedAt,         \* number of searches started when an exception escaped
    result,           \* what the caller of find_best_model received
    \* predict_value
    nodes,            \* model_struct.nodes()
    columns,          \* states.columns
    p_pc,             \* position inside predict_value
    data_new,         \* columns of the reduced frame
    exc,              \* the exception raised inside the try block, and where
    infer_in,         \* the column sets model_struct.predict was called with
    pred_value,       \* what the caller of predict_value received
    logged,           \* number of logging.error calls
    \* calculate_error
    e_pred, e_real,   \* the arguments pred_value and real
    e_pc,             \* position inside calculate_error
    error             \* what the caller of calculate_error received

selVars  == <<max_iters, scoring_methods, pc, pos, model, score, best_model,
              best_score, best_method, best_iter, searched, evaluated,
              raisedAt, result>>
predVars == <<nodes, columns, p_pc, data_new, exc, infer_in, pred_value, logged>>
errVars  == <<e_pred, e_real, e_pc, error>>
vars     == <<selVars, predVars, errVars>>

----------------------------------------------------------------------------
\* Bounds of the model

MaxBudgets == 2
MaxMethods == 2
MaxScore == 1
MaxLen == 3

BoundedSeq(S, n) == UNION {[1..k -> S] : k \in 0..n}

RECURSIVE SumSeq(_)
SumSeq(s) == IF s = <<>> THEN 0 ELSE Head(s) + SumSeq(Tail(s))

----------------------------------------------------------------------------
\* Values of the program

NoModel == "None"
NoMethod == "None"
NoIter == 0
NegInf == -1

BudgetValues == {5, 10}
MethodNames == {"BicScore", "BDeuScore", "BDsScore"}
Structures == {"dag1", "dag2"}
Scores == 0..MaxScore

BudgetLists == BoundedSeq(BudgetValues, MaxBudgets)
MethodLists == {m \in BoundedSeq(MethodNames, MaxMethods) :
                   \A i, j \in 1..Len(m) : m[i] = m[j] => i = j}

NoResult == [returned |-> FALSE, model |-> NoModel, method |-> NoMethod,
             score |-> NegInf, iter |-> NoIter]

\* predict_value: None, and no exception raised
NoPrediction == <<>>
NoException == [type |-> "none", at |-> "none"]

\* calculate_error: None, not yet returned, and the float nan
NoError == [kind |-> "None", num |-> 0, den |-> 0]
Pending == [kind |-> "pending", num |-> 0, den |-> 0]
NaN == [kind |-> "nan", num |-> 0, den |-> 0]

----------------------------------------------------------------------------
\* find_best_model

InGrid(p) == p[1] \in 1..Len(max_iters) /\ p[2] \in 1..Len(scoring_methods)

\* variant: the loops nested the other way round, budgets innermost
NextPos_MethodMajor(p) ==
    IF p[1] < Len(max_iters) THEN <<p[1] + 1, p[2]>> ELSE <<1, p[2] + 1>>

\* the nested for loops: methods are the inner loop
NextPos(p) ==
    IF p[2] < Len(scoring_methods) THEN <<p[1], p[2] + 1>> ELSE <<p[1] + 1, 1>>

\* variant: `>=`, a tie replaces the accumulator
Better_OrEqual(s, b) == s >= b

\* variant: `<`, the lowest score is kept
Better_Reversed(s, b) == b = NegInf \/ s < b

\* `if score > best_score`
Better(s, b) == s > b

\* variant: only best_score is assigned
NewBest_ScoreOnly(cur, cell) == [cur EXCEPT !.score = cell.score]

\* the four assignments of the if body
NewBest(cur, cell) ==
    [model |-> cell.model, score |-> cell.score,
     method |-> cell.method, iter |-> cell.iter]

CurBest == [model |-> best_model, score |-> best_score,
            method |-> best_method, iter |-> best_iter]

CurCell == [pos |-> pos, iter |-> max_iters[pos[1]],
            method |-> scoring_methods[pos[2]], model |-> model, score |-> score]

\* variant: the failing cell is skipped and the grid continues
OnRaise_SkipCell(p, n) ==
    [pc |-> IF InGrid(NextPos(p)) THEN "estimate" ELSE "return",
     pos |-> NextPos(p), raisedAt |-> n]

\* no try/except in find_best_model: an exception leaves the function
OnRaise(p, n) == [pc |-> "raised", pos |-> p, raisedAt |-> n]

InitSelect ==
    /\ max_iters \in BudgetLists
    /\ scoring_methods \in MethodLists
    /\ pos = <<1, 1>>
    /\ pc = IF Len(max_iters) > 0 /\ Len(scoring_methods) > 0
            THEN "estimate" ELSE "return"
    /\ model = NoModel
    /\ score = NegInf
    /\ best_model = NoModel
    /\ best_score = NegInf
    /\ best_method = NoMethod
    /\ best_iter = NoIter
    /\ searched = <<>>
    /\ evaluated = <<>>
    /\ raisedAt = 0
    /\ result = NoResult
    \* predict_value and calculate_error are not running
    /\ nodes = {}
    /\ columns = {}
    /\ p_pc = "idle"
    /\ data_new = {}
    /\ exc = NoException
    /\ infer_in = <<>>
    /\ pred_value = NoPrediction
    /\ logged = 0
    /\ e_pred = <<>>
    /\ e_real = <<>>
    /\ e_pc = "idle"
    /\ error = Pending

\* model = hc.estimate(...) returns a structure
Estimate ==
    /\ pc = "estimate"
    /\ \E g \in Structures : model' = g
    /\ searched' = Append(searched, pos)
    /\ pc' = "score"
    /\ UNCHANGED <<max_iters, scoring_methods, pos, score, best_model,
                   best_score, best_method, best_iter, evaluated, raisedAt,
                   result>>
    /\ UNCHANGED <<predVars, errVars>>

\* hc.estimate(...) raises
EstimateRaises ==
    /\ pc = "estimate"
    /\ searched' = Append(searched, pos)
    /\ LET r == OnRaise(pos, Len(searched) + 1) IN
         /\ pc' = r.pc
         /\ pos' = r.pos
         /\ raisedAt' = r.raisedAt
    /\ UNCHANGED <<max_iters, scoring_methods, model, score, best_model,
                   best_score, best_method, best_iter, evaluated, result>>
    /\ UNCHANGED <<predVars, errVars>>

\* score = scoring_method.score(model) returns a number
Score ==
    /\ pc = "score"
    /\ \E s \in Scores : score' = s
    /\ evaluated' = Append(evaluated, [CurCell EXCEPT !.score = score'])
    /\ pc' = "compare"
    /\ UNCHANGED <<max_iters, scoring_methods, pos, model, best_model,
                   best_score, best_method, best_iter, searched, raisedAt,
                   result>>
    /\ UNCHANGED <<predVars, errVars>>

\* scoring_method.score(model) raises
ScoreRaises ==
    /\ pc = "score"
    /\ LET r == OnRaise(pos, Len(searched)) IN
         /\ pc' = r.pc
         /\ pos' = r.pos
         /\ raisedAt' = r.raisedAt
    /\ UNCHANGED <<max_iters, scoring_methods, model, score, best_model,
                   best_score, best_method, best_iter, searched, evaluated,
                   result>>
    /\ UNCHANGED <<predVars, errVars>>

\* the comparison succeeds: the accumulator is replaced, the loops advance
Update ==
    /\ pc = "compare"
    /\ Better(score, best_score)
    /\ LET b == NewBest(CurBest, CurCell) IN
         /\ best_model' = b.model
         /\ best_score' = b.score
         /\ best_method' = b.method
         /\ best_iter' = b.iter
    /\ pos' = NextPos(pos)
    /\ pc' = IF InGrid(pos') THEN "estimate" ELSE "return"
    /\ UNCHANGED <<max_iters, scoring_methods, model, score, searched,
                   evaluated, raisedAt, result>>
    /\ UNCHANGED <<predVars, errVars>>

\* the comparison fails: the accumulator is kept, the loops advance
Keep ==
    /\ pc = "compare"
    /\ ~Better(score, best_score)
    /\ pos' = NextPos(pos)
    /\ pc' = IF InGrid(pos') THEN "estimate" ELSE "return"
    /\ UNCHANGED <<max_iters, scoring_methods, model, score, best_model,
                   best_score, best_method, best_iter, searched, evaluated,
                   raisedAt, result>>
    /\ UNCHANGED <<predVars, errVars>>

\* return best_model, best_method, best_score, best_iter
Return ==
    /\ pc = "return"
    /\ result' = [returned |-> TRUE, model |-> best_model,
                  method |-> best_method, score |-> best_score,
                  iter |-> best_iter]
    /\ pc' = "done"
    /\ UNCHANGED <<max_iters, scoring_methods, pos, model, score, best_model,
                   best_score, best_method, best_iter, searched, evaluated,
                   raisedAt>>
    /\ UNCHANGED <<predVars, errVars>>

----------------------------------------------------------------------------
\* predict_value

ColumnNames == {"forecast", "Close", "A", "B"}
Values == {0, 1}
NumRows == 2
Predictions == [1..NumRows -> Values]
InferenceErrors == {"ValueError", "KeyError"}

\* variant: the drop list without 'forecast'
DropLabels_KeepForecast(model_nodes, state_columns) == state_columns \ model_nodes

\* list(columns_only_in_df2) + ['forecast']
DropLabels(model_nodes, state_columns) ==
    (state_columns \ model_nodes) \cup {"forecast"}

\* DataFrame.drop raises KeyError when a label is not a column
DropRaises(cols, labels) == ~(labels \subseteq cols)

DataFrameDrop(cols, labels) == cols \ labels

\* variant: `except ValueError`
Catches_ValueErrorOnly(e) == e = "ValueError"

\* `except Exception`: KeyError and ValueError are both subclasses
Catches(e) == e \in {"KeyError", "ValueError"}

InitPredict ==
    /\ nodes \in SUBSET ColumnNames
    /\ columns \in SUBSET ColumnNames
    /\ p_pc = "reconcile"
    /\ data_new = {}
    /\ exc = NoException
    /\ infer_in = <<>>
    /\ pred_value = NoPrediction
    /\ logged = 0
    \* find_best_model and calculate_error are not running
    /\ max_iters = <<>>
    /\ scoring_methods = <<>>
    /\ pc = "idle"
    /\ pos = <<1, 1>>
    /\ model = NoModel
    /\ score = NegInf
    /\ best_model = NoModel
    /\ best_score = NegInf
    /\ best_method = NoMethod
    /\ best_iter = NoIter
    /\ searched = <<>>
    /\ evaluated = <<>>
    /\ raisedAt = 0
    /\ result = NoResult
    /\ e_pred = <<>>
    /\ e_real = <<>>
    /\ e_pc = "idle"
    /\ error = Pending

\* lines 61-65 succeed
Reconcile ==
    /\ p_pc = "reconcile"
    /\ ~DropRaises(columns, DropLabels(nodes, columns))
    /\ data_new' = DataFrameDrop(columns, DropLabels(nodes, columns))
    /\ p_pc' = "infer"
    /\ UNCHANGED <<nodes, columns, exc, infer_in, pred_value, logged>>
    /\ UNCHANGED <<selVars, errVars>>

\* states.drop raises KeyError
ReconcileFails ==
    /\ p_pc = "reconcile"
    /\ DropRaises(columns, DropLabels(nodes, columns))
    /\ exc' = [type |-> "KeyError", at |-> "drop"]
    /\ p_pc' = "handler"
    /\ UNCHANGED <<nodes, columns, data_new, infer_in, pred_value, logged>>
    /\ UNCHANGED <<selVars, errVars>>

\* model_struct.predict(data_new) returns a frame holding the missing nodes,
\* and prediction['forecast'] finds its column
Inference ==
    /\ p_pc = "infer"
    /\ infer_in' = Append(infer_in, data_new)
    /\ "forecast" \in nodes \ data_new
    /\ \E v \in Predictions : pred_value' = v
    /\ p_pc' = "returned"
    /\ UNCHANGED <<nodes, columns, data_new, exc, logged>>
    /\ UNCHANGED <<selVars, errVars>>

\* model_struct.predict(data_new) raises
InferenceRaises ==
    /\ p_pc = "infer"
    /\ infer_in' = Append(infer_in, data_new)
    /\ \E e \in InferenceErrors : exc' = [type |-> e, at |-> "predict"]
    /\ p_pc' = "handler"
    /\ UNCHANGED <<nodes, columns, data_new, pred_value, logged>>
    /\ UNCHANGED <<selVars, errVars>>

\* model_struct.predict returns, prediction['forecast'] raises KeyError
ExtractFails ==
    /\ p_pc = "infer"
    /\ infer_in' = Append(infer_in, data_new)
    /\ "forecast" \notin nodes \ data_new
    /\ exc' = [type |-> "KeyError", at |-> "extract"]
    /\ p_pc' = "handler"
    /\ UNCHANGED <<nodes, columns, data_new, pred_value, logged>>
    /\ UNCHANGED <<selVars, errVars>>

\* the except clause: log, fall off the end of the function (None)
Handler ==
    /\ p_pc = "handler"
    /\ IF Catches(exc.type)
       THEN /\ logged' = logged + 1
            /\ p_pc' = "returned"
       ELSE /\ p_pc' = "propagated"
            /\ UNCHANGED logged
    /\ UNCHANGED <<nodes, columns, data_new, exc, infer_in, pred_value>>
    /\ UNCHANGED <<selVars, errVars>>

----------------------------------------------------------------------------
\* calculate_error

Arrays == BoundedSeq(Values, MaxLen)

\* variant: no shift
Roll_NoShift(a) == a

\* variant: np.roll(a, -1)
Roll_Backward(a) == IF a = <<>> THEN <<>> ELSE Tail(a) \o <<Head(a)>>

\* np.roll(a, 1): the last element comes first, the others move up by one
Roll(a) == IF a = <<>> THEN <<>> ELSE <<a[Len(a)]>> \o SubSeq(a, 1, Len(a) - 1)

\* numpy broadcasting of two one-dimensional shapes
Broadcastable(m, n) == m = n \/ m = 1 \/ n = 1

BroadcastLen(m, n) == IF m = 1 THEN n ELSE m

Elem(a, i) == IF Len(a) = 1 THEN a[1] ELSE a[i]

\* real != rolled, elementwise, True as 1
NotEqual(a, b) ==
    [i \in 1..BroadcastLen(Len(a), Len(b)) |->
        IF Elem(a, i) # Elem(b, i) THEN 1 ELSE 0]

\* np.mean of a boolean array, as the fraction num/den
Mean(b) == IF Len(b) = 0 THEN NaN
           ELSE [kind |-> "value", num |-> SumSeq(b), den |-> Len(b)]

InitError ==
    /\ e_pred \in Arrays
    /\ e_real \in Arrays
    /\ e_pc = "start"
    /\ error = Pending
    \* find_best_model and predict_value are not running
    /\ max_iters = <<>>
    /\ scoring_methods = <<>>
    /\ pc = "idle"
    /\ pos = <<1, 1>>
    /\ model = NoModel
    /\ score = NegInf
    /\ best_model = NoModel
    /\ best_score = NegInf
    /\ best_method = NoMethod
    /\ best_iter = NoIter
    /\ searched = <<>>
    /\ evaluated = <<>>
    /\ raisedAt = 0
    /\ result = NoResult
    /\ nodes = {}
    /\ columns = {}
    /\ p_pc = "idle"
    /\ data_new = {}
    /\ exc = NoException
    /\ infer_in = <<>>
    /\ pred_value = NoPrediction
    /\ logged = 0

\* the shapes agree or broadcast: the mean is returned
ComputeError ==
    /\ e_pc = "start"
    /\ Broadcastable(Len(e_real), Len(e_pred))
    /\ error' = Mean(NotEqual(e_real, Roll(e_pred)))
    /\ e_pc' = "returned"
    /\ UNCHANGED <<e_pred, e_real>>
    /\ UNCHANGED <<selVars, predVars>>

\* the shapes do not broadcast and != raises ValueError: caught, logged,
\* the function falls off its end (None)
MismatchCaught ==
    /\ e_pc = "start"
    /\ ~Broadcastable(Len(e_real), Len(e_pred))
    /\ error' = NoError
    /\ e_pc' = "returned"
    /\ UNCHANGED <<e_pred, e_real>>
    /\ UNCHANGED <<selVars, predVars>>

\* the shapes do not broadcast and != yields the scalar True (numpy before
\* 1.25, the warning being filtered): np.mean(True) is returned
MismatchScalar ==
    /\ e_pc = "start"
    /\ ~Broadcastable(Len(e_real), Len(e_pred))
    /\ error' = [kind |-> "value", num |-> 1, den |-> 1]
    /\ e_pc' = "returned"
    /\ UNCHANGED <<e_pred, e_real>>
    /\ UNCHANGED <<selVars, predVars>>

----------------------------------------------------------------------------
\* Specifications

NextSelect ==
    \/ Estimate
    \/ EstimateRaises
    \/ Score
    \/ ScoreRaises
    \/ Update
    \/ Keep
    \/ Return

NextPredict ==
    \/ Reconcile
    \/ ReconcileFails
    \/ Inference
    \/ InferenceRaises
    \/ ExtractFails
    \/ Handler

NextError ==
    \/ ComputeError
    \/ MismatchCaught
    \/ MismatchScalar

SpecSelect == InitSelect /\ [][NextSelect]_vars

SpecPredict == InitPredict /\ [][NextPredict]_vars

SpecError == InitError /\ [][NextError]_vars

----------------------------------------------------------------------------
\* Properties of find_best_model (SpecSelect)

Max(a, b) == IF a >= b THEN a ELSE b

RECURSIVE MaxScoreOf(_)
MaxScoreOf(cells) ==
    IF Len(cells) = 1 THEN cells[1].score
    ELSE Max(cells[1].score, MaxScoreOf(Tail(cells)))

FirstWithScore(cells, s) ==
    CHOOSE k \in 1..Len(cells) :
        /\ cells[k].score = s
        /\ \A j \in 1..(k - 1) : cells[j].score # s

\* cells whose comparison against the accumulator has been made
Compared == IF pc = "compare" THEN Len(evaluated) - 1 ELSE Len(evaluated)

\* C1: on a grid with at least one cell and no cell raising, the returned
\* best_score is greater than or equal to the score of every cell and is the
\* score of at least one cell.
C1_GlobalMax ==
    (pc = "done" /\ Len(evaluated) >= 1) =>
        /\ result.returned
        /\ \A k \in 1..Len(evaluated) : result.score >= evaluated[k].score
        /\ \E k \in 1..Len(evaluated) : result.score = evaluated[k].score

C1_Witness ==
    /\ pc = "done"
    /\ \E i, j \in 1..Len(evaluated) :
          /\ i < j
          /\ evaluated[i].score > evaluated[j].score
          /\ result.score = evaluated[i].score

\* C2: when several cells attain the maximum score, the returned model,
\* method and budget are those of the first such cell in iteration order.
C2_FirstFound ==
    (pc = "done" /\ Len(evaluated) >= 1) =>
        LET k == FirstWithScore(evaluated, MaxScoreOf(evaluated)) IN
            /\ result.model = evaluated[k].model
            /\ result.method = evaluated[k].method
            /\ result.iter = evaluated[k].iter

C2_Witness ==
    /\ pc = "done"
    /\ \E i, j \in 1..Len(evaluated) :
          /\ i < j
          /\ evaluated[i].score = MaxScoreOf(evaluated)
          /\ evaluated[j].score = evaluated[i].score
          /\ evaluated[j].model # evaluated[i].model
          /\ evaluated[j].method # evaluated[i].method
          /\ evaluated[j].iter # evaluated[i].iter
          /\ result.model = evaluated[i].model
          /\ result.method = evaluated[i].method
          /\ result.iter = evaluated[i].iter

\* C3: after every completed cell, and at return, best_model, best_score,
\* best_method and best_iter are the structure, score, method name and
\* budget of one and the same evaluated cell, and the returned tuple is that
\* accumulator.
C3_AtomicBest ==
    /\ Compared >= 1 =>
         \E k \in 1..Compared :
            /\ best_model = evaluated[k].model
            /\ best_score = evaluated[k].score
            /\ best_method = evaluated[k].method
            /\ best_iter = evaluated[k].iter
    /\ pc = "done" =>
         /\ result.model = best_model
         /\ result.score = best_score
         /\ result.method = best_method
         /\ result.iter = best_iter

C3_Witness ==
    /\ pc = "estimate"
    /\ Len(evaluated) = 2
    /\ evaluated[2].score > evaluated[1].score
    /\ evaluated[2].model # evaluated[1].model
    /\ best_model = evaluated[2].model
    /\ best_score = evaluated[2].score
    /\ best_method = evaluated[2].method
    /\ best_iter = evaluated[2].iter

\* the k-th cell of the cross product in budget-major order
BudgetMajor(k) ==
    <<((k - 1) \div Len(scoring_methods)) + 1,
      ((k - 1) % Len(scoring_methods)) + 1>>

\* C4: the search and the re-scoring run once per (budget, method) pair, in
\* budget-major order, and a run that returns has evaluated exactly
\* M*B cells.
C4_GridOrder ==
    /\ \A k \in 1..Len(searched) : searched[k] = BudgetMajor(k)
    /\ Len(evaluated) <= Len(searched)
    /\ \A k \in 1..Len(evaluated) :
          /\ evaluated[k].pos = searched[k]
          /\ evaluated[k].iter = max_iters[BudgetMajor(k)[1]]
          /\ evaluated[k].method = scoring_methods[BudgetMajor(k)[2]]
    /\ pc = "done" =>
          /\ Len(searched) = Len(max_iters) * Len(scoring_methods)
          /\ Len(evaluated) = Len(max_iters) * Len(scoring_methods)

C4_Witness ==
    /\ pc = "done"
    /\ max_iters = <<5, 10>>
    /\ Len(scoring_methods) = 2
    /\ Len(evaluated) = 4

\* C5: when the search or the scoring raises in a cell, the failure leaves
\* find_best_model: no later cell is searched and nothing is returned, also
\* when earlier cells completed.
C5_RaiseAborts ==
    raisedAt > 0 =>
        /\ pc = "raised"
        /\ Len(searched) = raisedAt
        /\ Len(evaluated) < Len(searched)
        /\ ~result.returned
        /\ result = NoResult

C5_Witness ==
    /\ pc = "raised"
    /\ Len(evaluated) >= 1
    /\ best_model # NoModel
    /\ Len(searched) < Len(max_iters) * Len(scoring_methods)

----------------------------------------------------------------------------
\* Properties of predict_value (SpecPredict)

\* C6: every column set handed to the model's inference is free of
\* "forecast" and holds model nodes only, whether or not "forecast" is a node.
C6_NoForecastInput ==
    \A k \in 1..Len(infer_in) :
        /\ "forecast" \notin infer_in[k]
        /\ infer_in[k] \subseteq nodes

C6_Witness ==
    /\ Len(infer_in) = 1
    /\ "forecast" \in nodes
    /\ "forecast" \in columns
    /\ columns \ nodes # {}
    /\ infer_in[1] # {}

\* C7: a failure in the reconciliation or in the inference is caught and
\* logged, and the call returns None: nothing reaches the caller as an
\* exception.
C7_FailureCaught ==
    /\ p_pc # "propagated"
    /\ exc # NoException =>
         /\ p_pc \in {"handler", "returned"}
         /\ p_pc = "returned" => (logged = 1 /\ pred_value = NoPrediction)

C7_Witness ==
    /\ p_pc = "returned"
    /\ exc = [type |-> "KeyError", at |-> "drop"]
    /\ "forecast" \notin columns
    /\ logged = 1
    /\ pred_value = NoPrediction

----------------------------------------------------------------------------
\* Properties of calculate_error (SpecError)

\* positions i of 0..n-1 with actual[i] != predicted[(i-1) mod n]
ShiftedMismatches(predicted, actual) ==
    LET n == Len(actual) IN
        {i \in 0..(n - 1) : actual[i + 1] # predicted[((i - 1) % n) + 1]}

\* a rotated one position forward: element i moves to position i+1
RotatedForward(a) == [i \in 1..Len(a) |-> a[((i - 2) % Len(a)) + 1]]

\* a rotated one position backward: element i+1 moves to position i
RotatedBackward(a) == [i \in 1..Len(a) |-> a[(i % Len(a)) + 1]]

\* C8: for sequences of equal length n >= 1 the result is the number of
\* positions i with actual[i] != predicted[(i-1) mod n], divided by n, a
\* fraction between 0 and 1.
C8_ShiftedFraction ==
    (e_pc = "returned" /\ Len(e_pred) = Len(e_real) /\ Len(e_real) >= 1) =>
        /\ error.kind = "value"
        /\ error.den = Len(e_real)
        /\ error.num = Cardinality(ShiftedMismatches(e_pred, e_real))
        /\ 0 <= error.num
        /\ error.num <= error.den

C8_Witness ==
    /\ e_pc = "returned"
    /\ Len(e_pred) = 3
    /\ Len(e_real) = 3
    /\ e_pred = e_real
    /\ error.kind = "value"
    /\ error.num = 2

\* C9 as stated: with pred equal to actual rotated one position forward
\* (the direction of the shift calculate_error itself applies), the error
\* of a non-empty sequence is 0.
C9_ForwardZero ==
    (e_pc = "returned" /\ Len(e_real) >= 1 /\ e_pred = RotatedForward(e_real)) =>
        (error.kind = "value" /\ error.num = 0)

\* C9 amended: with pred equal to actual rotated one position backward
\* (pred[i] = actual[(i+1) mod n]), the error of a non-empty sequence is 0.
C9_BackwardZero ==
    (e_pc = "returned" /\ Len(e_real) >= 1 /\ e_pred = RotatedBackward(e_real)) =>
        (error.kind = "value" /\ error.num = 0)

C9_Witness ==
    /\ e_pc = "returned"
    /\ Len(e_real) = 3
    /\ e_pred = RotatedBackward(e_real)
    /\ e_pred # e_real
    /\ error.kind = "value"
    /\ error.num = 0

\* C10: with sequences of different lengths calculate_error raises to its
\* caller and never returns normally.
C10_MismatchRaises ==
    Len(e_pred) # Len(e_real) => e_pc # "returned"

====
